---- MODULE Spec2Model ----
(***************************************************************************)
(* A model of the NFA engine of refa (src/unnamed/part_000, nfa.ts).       *)
(*                                                                         *)
(* A node is the pair <<list, id>> of the NodeList that owns it and its id *)
(* in that list (NFANode.list, NFANode.id); heap.n[list] is the list's     *)
(* _nodeCounter.  The adjacency maps NFANode.out and NFANode.in of all     *)
(* nodes are the two functions heap.out and heap.in, keyed by the          *)
(* pair <<node, neighbour>>; they are kept as two separate maps because    *)
(* the code updates them separately.  A CharSet is the record              *)
(* [chars, maximum].  A Set<NFANode> that the code iterates (final) is a   *)
(* duplicate-free sequence in insertion order.  heap.err is the error an   *)
(* operation has thrown ("ok" while none): once it is set, the statements  *)
(* after the throw do not run.                                             *)
(***************************************************************************)
EXTENDS Integers, Sequences, FiniteSets, TLC

VARIABLES heap, nfas, last

vars == <<heap, nfas, last>>

(***************************************************************************)
(* Bounds of the model.                                                    *)
(***************************************************************************)
MaxNodes == 6
MaxNFAs == 2
MaxWordLen == 4

(* Number.POSITIVE_INFINITY as a quantifier maximum. *)
Infinity == 1000000

(* options.maxCharacter of the automata of the model: the alphabet is 0..1 *)
MaxCharacter == 1

(***************************************************************************)
(* Sets, maps and character sets.                                          *)
(***************************************************************************)
Range(s) == {s[i] : i \in 1..Len(s)}

SetAdd(s, x) == IF x \in Range(s) THEN s ELSE Append(s, x)

SetDelete(s, x) == SelectSeq(s, LAMBDA y : y # x)

RECURSIVE SetAddAll(_, _)
SetAddAll(s, t) == IF t = <<>> THEN s ELSE SetAddAll(SetAdd(s, Head(t)), Tail(t))

EmptyMap == [k \in {} |-> 0]

MapSet(map, key, value) == [k \in DOMAIN map \cup {key} |-> IF k = key THEN value ELSE map[k]]

MapDelete(map, key) == [k \in DOMAIN map \ {key} |-> map[k]]

MapDeleteAll(map, keys) == [k \in DOMAIN map \ keys |-> map[k]]

Keys(map, node) == {k[2] : k \in {q \in DOMAIN map : q[1] = node}}

CharSetOf(chars, maximum) == [chars |-> chars, maximum |-> maximum]

CharSetUnion(a, b) == [chars |-> a.chars \cup b.chars, maximum |-> a.maximum]

CharSetIntersect(a, b) == [chars |-> a.chars \cap b.chars, maximum |-> a.maximum]

(***************************************************************************)
(* NodeList primitives.                                                    *)
(***************************************************************************)
EmptyHeap == [n |-> <<>>, out |-> EmptyMap, in |-> EmptyMap, err |-> "ok"]

(* the node that the next createNode of the list returns *)
newNode(H, self) == <<self, H.n[self]>>

createNode(H, self) == [H EXCEPT !.n[self] = @ + 1]

(* k calls of createNode *)
createNodes(H, self, k) == [H EXCEPT !.n[self] = @ + k]

(* an order of the nodes: by list, then by id *)
Before(p, q) == p[1] < q[1] \/ (p[1] = q[1] /\ p[2] <= q[2])

(* add, with map.set(to, characters) whatever the map holds *)
addReplacing(map, key, characters) == MapSet(map, key, characters)

add(map, key, characters) ==
    IF key \notin DOMAIN map
    THEN MapSet(map, key, characters)
    ELSE MapSet(map, key, CharSetUnion(map[key], characters))

linkNodes(H, self, from, to, characters) ==
    IF H.err # "ok" THEN H
    ELSE IF from[1] # to[1] THEN [H EXCEPT !.err = "cross-list-link"]
    ELSE IF from[1] # self THEN [H EXCEPT !.err = "cross-list-link"]
    ELSE IF characters.chars = {} THEN [H EXCEPT !.err = "empty-label"]
    ELSE [H EXCEPT !.out = add(@, <<from, to>>, characters),
                   !.in = add(@, <<to, from>>, characters)]

(* unlinkNodes without its last statement, to.in.delete(from) *)
unlinkNodesOut(H, self, from, to) ==
    IF H.err # "ok" THEN H
    ELSE IF from[1] # to[1] THEN [H EXCEPT !.err = "cross-list-link"]
    ELSE IF from[1] # self THEN [H EXCEPT !.err = "cross-list-link"]
    ELSE IF <<from, to>> \notin DOMAIN H.out THEN [H EXCEPT !.err = "missing-edge"]
    ELSE [H EXCEPT !.out = MapDelete(@, <<from, to>>)]

unlinkNodes(H, self, from, to) ==
    IF H.err # "ok" THEN H
    ELSE IF from[1] # to[1] THEN [H EXCEPT !.err = "cross-list-link"]
    ELSE IF from[1] # self THEN [H EXCEPT !.err = "cross-list-link"]
    ELSE IF <<from, to>> \notin DOMAIN H.out THEN [H EXCEPT !.err = "missing-edge"]
    ELSE [H EXCEPT !.out = MapDelete(@, <<from, to>>),
                   !.in = MapDelete(@, <<to, from>>)]

(* a loop of linkNodes calls over the edges <<from, to, characters>> of E *)
RECURSIVE LinkAll(_, _, _)
LinkAll(H, self, E) ==
    IF E = {} THEN H
    ELSE LET e == CHOOSE x \in E : TRUE
         IN LinkAll(linkNodes(H, self, e[1], e[2], e[3]), self, E \ {e})

(* a loop of unlinkNodes calls over the pairs <<from, to>> of P *)
RECURSIVE UnlinkAll(_, _, _)
UnlinkAll(H, self, P) ==
    IF P = {} THEN H
    ELSE LET e == CHOOSE x \in P : TRUE
         IN UnlinkAll(unlinkNodes(H, self, e[1], e[2]), self, P \ {e})

(* DFS(start, n => n.out.keys()): the nodes reachable from S along out *)
RECURSIVE ReachOut(_, _)
ReachOut(H, S) ==
    LET T == S \cup UNION {Keys(H.out, n) : n \in S}
    IN IF T = S THEN S ELSE ReachOut(H, T)

RECURSIVE ReachIn(_, _)
(* the search along in, ended after the neighbours of the start nodes *)
ReachInOnce(H, S) == S \cup UNION {Keys(H.in, n) : n \in S}

(* DFS(start, n => n.in.keys()): the nodes reachable from S along in *)
ReachIn(H, S) ==
    LET T == S \cup UNION {Keys(H.in, n) : n \in S}
    IN IF T = S THEN S ELSE ReachIn(H, T)

(* DFS(start, n => [...n.in.keys(), ...n.out.keys()]) *)
RECURSIVE ReachBoth(_, _)
ReachBoth(H, S) ==
    LET T == S \cup UNION {Keys(H.in, n) \cup Keys(H.out, n) : n \in S}
    IN IF T = S THEN S ELSE ReachBoth(H, T)

(***************************************************************************)
(* NodeList.removeUnreachable.  The result is the heap and the final set.  *)
(***************************************************************************)
makeEmpty(H, initial) ==
    [h |-> [H EXCEPT !.in = MapDeleteAll(@, {k \in DOMAIN H.in : k[1] = initial}),
                     !.out = MapDeleteAll(@, {k \in DOMAIN H.out : k[1] = initial})],
     final |-> <<>>]

removeNode(S, self, initial, node) ==
    IF S.h.err # "ok" THEN S
    ELSE IF node = initial THEN [S EXCEPT !.h.err = "initial-removal"]
    ELSE LET incoming(H1) == UnlinkAll(H1, self, {<<i, node>> : i \in Keys(H1.in, node)})
         IN [h |-> incoming(UnlinkAll(S.h, self,
                                      {<<node, o>> : o \in Keys(S.h.out, node)})),
             final |-> SetDelete(S.final, node)]

RECURSIVE removeAllBut(_, _, _, _, _)
(* the loop over allNodes, ended after the first node it removes *)
removeFirstBut(S, self, initial, nodes, keep) ==
    IF nodes \subseteq keep THEN S
    ELSE removeNode(S, self, initial,
                    CHOOSE x \in nodes \ keep : \A y \in nodes \ keep : Before(x, y))

(* allNodes.forEach(node => { if (!keep.has(node)) removeNode(node) }) *)
removeAllBut(S, self, initial, nodes, keep) ==
    IF nodes \subseteq keep THEN S
    ELSE LET node == CHOOSE x \in nodes \ keep : \A y \in nodes \ keep : Before(x, y)
         IN removeAllBut(removeNode(S, self, initial, node), self, initial,
                         nodes \ {node}, keep)

(* removeUnreachable without its step 6 *)
removeUnreachableFromInitial(H, self, nodeList) ==
    IF nodeList.final = <<>> THEN makeEmpty(H, nodeList.initial)
    ELSE LET allNodes == Range(nodeList.final) \cup ReachBoth(H, {nodeList.initial})
             reachableFromInitial == ReachOut(H, {nodeList.initial})
             pruned(S3) ==
                IF S3.h.err # "ok" THEN S3
                ELSE IF S3.final = <<>> THEN makeEmpty(S3.h, nodeList.initial)
                ELSE S3
         IN pruned(removeAllBut([h |-> H, final |-> nodeList.final], self,
                                nodeList.initial, allNodes, reachableFromInitial))

removeUnreachable(H, self, nodeList) ==
    IF nodeList.final = <<>> THEN makeEmpty(H, nodeList.initial)
    ELSE LET allNodes == Range(nodeList.final) \cup ReachBoth(H, {nodeList.initial})
             reachableFromInitial == ReachOut(H, {nodeList.initial})
             pruned(S3) ==
                IF S3.h.err # "ok" THEN S3
                ELSE IF S3.final = <<>> THEN makeEmpty(S3.h, nodeList.initial)
                ELSE removeAllBut(S3, self, nodeList.initial, reachableFromInitial,
                                  ReachIn(S3.h, Range(S3.final)))
         IN pruned(removeAllBut([h |-> H, final |-> nodeList.final], self,
                                nodeList.initial, allNodes, reachableFromInitial))

(***************************************************************************)
(* Sub-list transformers.  A SubList is [initial, final]; a transformer    *)
(* returns the heap and the altered base as [h, base].                     *)
(***************************************************************************)
(* baseMakeEmpty without base.final.clear() *)
baseMakeEmptyKeepFinal(H, self, base) ==
    [h |-> UnlinkAll(H, self, {<<base.initial, o>> : o \in Keys(H.out, base.initial)}),
     base |-> base]

baseMakeEmpty(H, self, base) ==
    LET cleared(H1) ==
            [h |-> H1, base |-> IF H1.err # "ok" THEN base ELSE [base EXCEPT !.final = <<>>]]
    IN cleared(UnlinkAll(H, self, {<<base.initial, o>> : o \in Keys(H.out, base.initial)}))

(* toCopy.final restricted to the visited nodes, translated *)
RECURSIVE translateFinal(_, _, _)
translateFinal(final, R, translate) ==
    IF final = <<>> THEN <<>>
    ELSE IF Head(final) \in R
         THEN <<translate[Head(final)]>> \o translateFinal(Tail(final), R, translate)
         ELSE translateFinal(Tail(final), R, translate)

(* The result is [h, sub]: the heap and the created sub list. *)
localCopy(H, self, toCopy) ==
    LET R == ReachOut(H, {toCopy.initial})
        others == R \ {toCopy.initial}
        translate == [node \in R |->
                        IF node = toCopy.initial THEN newNode(H, self)
                        ELSE <<self, H.n[self] + Cardinality({m \in others : Before(m, node)})>>]
        H1 == createNodes(H, self, Cardinality(R))
        E == {<<translate[k[1]], translate[k[2]], H.out[k]>> :
                    k \in {q \in DOMAIN H.out : q[1] \in R}}
    IN [h |-> LinkAll(H1, self, E),
        sub |-> [initial |-> newNode(H, self),
                 final |-> translateFinal(toCopy.final, R, translate)]]

RECURSIVE transferFinals(_, _, _, _)
(* transferFinals without the replacement of other.initial by base.initial *)
transferFinalsAsIs(baseFinal, baseInitial, otherFinal, otherInitial) ==
    IF otherFinal = <<>> THEN baseFinal
    ELSE transferFinals(SetAdd(baseFinal, Head(otherFinal)),
                        baseInitial, Tail(otherFinal), otherInitial)

(* final.forEach(f => base.final.add(f === other.initial ? base.initial : f)) *)
transferFinals(baseFinal, baseInitial, otherFinal, otherInitial) ==
    IF otherFinal = <<>> THEN baseFinal
    ELSE transferFinals(
            SetAdd(baseFinal, IF Head(otherFinal) = otherInitial THEN baseInitial
                              ELSE Head(otherFinal)),
            baseInitial, Tail(otherFinal), otherInitial)

(* for (const [to, characters] of [...other.initial.out]) {               *)
(*     linkNodes(base.initial, to, characters); unlinkNodes(other.initial, to) } *)
transferNodes(H, self, baseInitial, otherInitial) ==
    LET tos == Keys(H.out, otherInitial)
    IN UnlinkAll(LinkAll(H, self,
                         {<<baseInitial, to, H.out[<<otherInitial, to>>]>> : to \in tos}),
                 self, {<<otherInitial, to>> : to \in tos})

baseReplaceWith(H, self, base, replacement) ==
    LET replaced(m) ==
            IF m.h.err # "ok" THEN m
            ELSE [h |-> transferNodes(m.h, self, base.initial, replacement.initial),
                  base |-> [base EXCEPT !.final =
                                transferFinals(m.base.final, base.initial,
                                               replacement.final, replacement.initial)]]
    IN replaced(baseMakeEmpty(H, self, base))

RECURSIVE reuseLoop(_, _, _, _)
(* the loop over reusable, dropping the nodes without linking their        *)
(* incoming edges to masterFinal                                           *)
reuseLoopDropping(S, self, reusable, masterFinal) ==
    [h |-> UnlinkAll(S.h, self, {k \in DOMAIN S.h.out : k[2] \in Range(reusable)}),
     base |-> [S.base EXCEPT !.final = SelectSeq(@, LAMBDA f : f \notin Range(reusable))]]

(* one round of the loop over reusable: toRemove's incoming edges go to masterFinal *)
reuseLoop(S, self, reusable, masterFinal) ==
    IF reusable = <<>> \/ S.h.err # "ok" THEN S
    ELSE LET toRemove == Head(reusable)
             froms == Keys(S.h.in, toRemove)
             unlink(H1) == UnlinkAll(H1, self, {<<to, toRemove>> : to \in froms})
         IN reuseLoop([h |-> unlink(LinkAll(S.h, self,
                                {<<to, masterFinal, S.h.in[<<toRemove, to>>]>> :
                                    to \in froms})),
                       base |-> [S.base EXCEPT !.final = SetDelete(@, toRemove)]],
                      self, Tail(reusable), masterFinal)

(* baseOptimizationReuseFinalStates without its test f.out.size === 0 *)
baseOptimizationReuseAllFinalStates(H, self, base) ==
    LET reusable == SelectSeq(base.final, LAMBDA f : f # base.initial)
    IN IF Len(reusable) > 1
       THEN reuseLoop([h |-> H, base |-> base], self,
                      SubSeq(reusable, 1, Len(reusable) - 1), reusable[Len(reusable)])
       ELSE [h |-> H, base |-> base]

baseOptimizationReuseFinalStates(H, self, base) ==
    LET reusable == SelectSeq(base.final,
                        LAMBDA f : f # base.initial /\ Keys(H.out, f) = {})
    IN IF Len(reusable) > 1
       THEN reuseLoop([h |-> H, base |-> base], self,
                      SubSeq(reusable, 1, Len(reusable) - 1), reusable[Len(reusable)])
       ELSE [h |-> H, base |-> base]

baseUnion(H, self, base, alternative) ==
    LET base1 == [base EXCEPT !.final =
                        transferFinals(@, base.initial,
                                       alternative.final, alternative.initial)]
        optimized(H1) ==
            IF H1.err # "ok" THEN [h |-> H1, base |-> base1]
            ELSE baseOptimizationReuseFinalStates(H1, self, base1)
    IN optimized(transferNodes(H, self, base.initial, alternative.initial))

(* baseConcat that keeps the final nodes of base when after.initial is not final *)
baseConcatKeepFinal(H, self, base, after) ==
    IF base.final = <<>> THEN [h |-> H, base |-> base]
    ELSE IF after.final = <<>> THEN baseMakeEmpty(H, self, base)
    ELSE LET tos == Keys(H.out, after.initial)
             final == SetAddAll(base.final, SetDelete(after.final, after.initial))
             done(H2) ==
                IF H2.err # "ok" THEN [h |-> H2, base |-> base]
                ELSE [h |-> H2, base |-> [base EXCEPT !.final = final]]
             unlink(H1) == done(UnlinkAll(H1, self, {<<after.initial, to>> : to \in tos}))
         IN unlink(LinkAll(H, self,
                       {<<baseFinal, to, H.out[<<after.initial, to>>]>> :
                            baseFinal \in Range(base.final), to \in tos}))

baseConcat(H, self, base, after) ==
    IF base.final = <<>> THEN [h |-> H, base |-> base]
    ELSE IF after.final = <<>> THEN baseMakeEmpty(H, self, base)
    ELSE LET tos == Keys(H.out, after.initial)
             kept == IF after.initial \notin Range(after.final) THEN <<>> ELSE base.final
             final == SetAddAll(kept, SetDelete(after.final, after.initial))
             done(H2) ==
                IF H2.err # "ok" THEN [h |-> H2, base |-> base]
                ELSE [h |-> H2, base |-> [base EXCEPT !.final = final]]
             unlink(H1) == done(UnlinkAll(H1, self, {<<after.initial, to>> : to \in tos}))
         IN unlink(LinkAll(H, self,
                       {<<baseFinal, to, H.out[<<after.initial, to>>]>> :
                            baseFinal \in Range(base.final), to \in tos}))

(* basePlus that links the final nodes to base.initial itself *)
basePlusToInitial(H, self, base) ==
    [h |-> LinkAll(H, self,
              {<<f, base.initial, H.out[<<base.initial, to>>]>> :
                    f \in Range(base.final) \ {base.initial},
                    to \in Keys(H.out, base.initial)}),
     base |-> base]

basePlus(H, self, base) ==
    [h |-> LinkAll(H, self,
              {<<f, to, H.out[<<base.initial, to>>]>> :
                    f \in Range(base.final) \ {base.initial},
                    to \in Keys(H.out, base.initial)}),
     base |-> base]

RECURSIVE repeatLoop(_, _, _, _, _)
(* the loop with the condition i > 1 *)
repeatLoopOnceMore(S, self, copy, i, collect) ==
    IF i <= 1 \/ S.h.err # "ok" THEN S
    ELSE LET step(r) ==
                repeatLoop([h |-> r.h, base |-> r.base,
                            realFinal |-> IF collect /\ r.h.err = "ok"
                                          THEN SetAddAll(S.realFinal, r.base.final)
                                          ELSE S.realFinal],
                           self, copy, i - 1, collect)
             concatCopy(c) == step(baseConcat(c.h, self, S.base, c.sub))
         IN concatCopy(localCopy(S.h, self, copy))

(* for (let i = times; i > 2; i--) {                                       *)
(*     baseConcat(nodeList, base, localCopy(nodeList, copy));              *)
(*     base.final.forEach(f => realFinal.add(f)); // when collect          *)
(* }                                                                       *)
repeatLoop(S, self, copy, i, collect) ==
    IF i <= 2 \/ S.h.err # "ok" THEN S
    ELSE LET step(r) ==
                repeatLoop([h |-> r.h, base |-> r.base,
                            realFinal |-> IF collect /\ r.h.err = "ok"
                                          THEN SetAddAll(S.realFinal, r.base.final)
                                          ELSE S.realFinal],
                           self, copy, i - 1, collect)
             concatCopy(c) == step(baseConcat(c.h, self, S.base, c.sub))
         IN concatCopy(localCopy(S.h, self, copy))

baseRepeat(H, self, base, times) ==
    IF times = 0
    THEN LET cleared(m) ==
                IF m.h.err # "ok" THEN m
                ELSE [h |-> m.h, base |-> [m.base EXCEPT !.final = SetAdd(@, base.initial)]]
         IN cleared(baseMakeEmpty(H, self, base))
    ELSE IF times = 1 THEN [h |-> H, base |-> base]
    ELSE IF Len(base.final) = 1 /\ base.initial \in Range(base.final)
         THEN [h |-> H, base |-> base]
    ELSE IF Len(base.final) = 0 THEN [h |-> H, base |-> base]
    ELSE IF base.initial \notin Range(base.final)
    THEN LET lastConcat(S, copy) ==
                IF S.h.err # "ok" THEN [h |-> S.h, base |-> S.base]
                ELSE baseConcat(S.h, self, S.base, copy.sub)
             loop(copy) ==
                lastConcat(repeatLoop([h |-> copy.h, base |-> base, realFinal |-> <<>>],
                                      self, copy.sub, times, FALSE),
                           copy)
         IN loop(localCopy(H, self, base))
    ELSE LET realFinal == base.final
             base1 == [base EXCEPT !.final = SetDelete(@, base.initial)]
             collected(S, r) ==
                IF r.h.err # "ok" THEN r
                ELSE [h |-> r.h,
                      base |-> [r.base EXCEPT !.final = SetAddAll(S.realFinal, r.base.final)]]
             lastConcat(S, copy) ==
                IF S.h.err # "ok" THEN [h |-> S.h, base |-> S.base]
                ELSE collected(S, baseConcat(S.h, self, S.base, copy.sub))
             loop(copy) ==
                lastConcat(repeatLoop([h |-> copy.h, base |-> base1,
                                       realFinal |-> realFinal],
                                      self, copy.sub, times, TRUE),
                           copy)
         IN loop(localCopy(H, self, base1))

baseQuantify(H, self, base, min, max) ==
    IF max = 0
    THEN LET cleared(m) ==
                IF m.h.err # "ok" THEN m
                ELSE [h |-> m.h, base |-> [m.base EXCEPT !.final = SetAdd(@, base.initial)]]
         IN cleared(baseMakeEmpty(H, self, base))
    ELSE LET min1 == IF base.initial \in Range(base.final) THEN 0 ELSE min
             base1 == IF base.initial \notin Range(base.final) /\ min = 0
                      THEN [base EXCEPT !.final = SetAdd(@, base.initial)]
                      ELSE base
         IN IF max = 1 THEN [h |-> H, base |-> base1]
            ELSE IF min1 = max THEN baseRepeat(H, self, base1, min1)
            ELSE IF max < Infinity
            THEN LET concatBoth(rc, rb) ==
                        IF rb.h.err # "ok" THEN rb
                        ELSE baseConcat(rb.h, self, rb.base, rc.base)
                     repeatBase(rc) ==
                        IF rc.h.err # "ok" THEN [h |-> rc.h, base |-> base1]
                        ELSE concatBoth(rc, baseRepeat(rc.h, self, base1, min1))
                     repeatCopy(c) ==
                        repeatBase(baseRepeat(c.h, self,
                                              [c.sub EXCEPT !.final = SetAdd(@, c.sub.initial)],
                                              max - min1))
                 IN repeatCopy(localCopy(H, self, base1))
            ELSE IF min1 > 1
            THEN LET concatPlus(p, rb) ==
                        IF rb.h.err # "ok" THEN rb
                        ELSE baseConcat(rb.h, self, rb.base, p.base)
                     repeatBase(p) == concatPlus(p, baseRepeat(p.h, self, base1, min1 - 1))
                     plusCopy(c) == repeatBase(basePlus(c.h, self, c.sub))
                 IN plusCopy(localCopy(H, self, base1))
            ELSE basePlus(H, self, base1)

(***************************************************************************)
(* The NFA facade.  An NFA is [initial, final, options]; its NodeList is   *)
(* named by its position in nfas.                                          *)
(***************************************************************************)
RECURSIVE match(_, _, _, _, _)
match(H, final, characters, index, node) ==
    IF index > Len(characters) THEN node \in Range(final)
    ELSE \E to \in Keys(H.out, node) :
            /\ characters[index] \in H.out[<<node, to>>].chars
            /\ match(H, final, characters, index + 1, to)

test(H, nfa, word) == match(H, nfa.final, word, 1, nfa.initial)

isEmpty(nfa) == Len(nfa.final) = 0

(* checkOptionsCompatibility that never throws *)
checkOptionsNever(H, thisOptions, otherOptions) == H

checkOptionsCompatibility(H, thisOptions, otherOptions) ==
    IF thisOptions.maxCharacter # otherOptions.maxCharacter
    THEN [H EXCEPT !.err = "alphabet-mismatch"]
    ELSE H

(* An operation of the facade returns [h, nfa]: the heap and the NFA it    *)
(* altered or created.                                                     *)
(* union without its call of checkOptionsCompatibility *)
unionUnchecked(H, self, this, nfa, same) ==
    IF same THEN [h |-> H, nfa |-> this]
    ELSE LET renamed(r) == [h |-> r.h, nfa |-> r.base]
             united(c) == renamed(baseUnion(c.h, self, this, c.sub))
         IN united(localCopy(H, self, nfa))

union(H, self, this, nfa, same) ==
    IF same THEN [h |-> H, nfa |-> this]
    ELSE LET renamed(r) == [h |-> r.h, nfa |-> r.base]
             united(c) == renamed(baseUnion(c.h, self, this, c.sub))
             checked(H1) ==
                IF H1.err # "ok" THEN [h |-> H1, nfa |-> this]
                ELSE united(localCopy(H1, self, nfa))
         IN checked(checkOptionsCompatibility(H, this.options, nfa.options))

quantify(H, self, this, min, max) ==
    IF min < 0 \/ min > max
    THEN [h |-> [H EXCEPT !.err = "invalid-range"], nfa |-> this]
    ELSE LET renamed(r) == [h |-> r.h, nfa |-> r.base]
         IN renamed(baseQuantify(H, self, this, min, max))

(* a JavaScript number that is whole or lies half way between two whole    *)
(* numbers: whole + half / 2                                                *)
Number(whole, half) == [whole |-> whole, half |-> half]

(* Number.isInteger: Infinity is no integer *)
isInteger(x) == x.half = 0 /\ x.whole # Infinity

(* NFA.quantify, any numbers given: the space of one truncated argument *)
quantifyTruncated(H, self, this, min, max) ==
    quantify(H, self, this, min.whole, max.whole)

(* NFA.quantify, any numbers given: the two integer tests of its guard     *)
(* throw the RangeError, and the numbers that pass them go on to the rest  *)
(* of the guard                                                            *)
quantifyNumber(H, self, this, min, max) ==
    IF ~isInteger(min) \/ ~(isInteger(max) \/ max = Number(Infinity, 0))
    THEN [h |-> [H EXCEPT !.err = "invalid-range"], nfa |-> this]
    ELSE quantify(H, self, this, min.whole, max.whole)

concat(H, self, this, nfa, same) ==
    IF same THEN quantify(H, self, this, 2, 2)
    ELSE LET renamed(r) == [h |-> r.h, nfa |-> r.base]
             checked(H1) ==
                IF H1.err # "ok" THEN [h |-> H1, nfa |-> this]
                ELSE renamed(baseConcat(H1, self, this, nfa))
         IN checked(checkOptionsCompatibility(H, this.options, nfa.options))

(* new NFA(new NodeList(), options): self is the new list *)
newNFA(H, self, options) ==
    [h |-> [H EXCEPT !.n = Append(@, 1)],
     nfa |-> [initial |-> <<self, 0>>, final |-> <<>>, options |-> options]]

(* copy, returning the nodes of the original with the new NFA *)
copyAliased(H, self, this) == [h |-> newNFA(H, self, this.options).h, nfa |-> this]

copy(H, self, this) ==
    LET united(c) == union(c.h, self, c.nfa, this, FALSE)
    IN united(newNFA(H, self, this.options))

RECURSIVE productFinals(_, _, _, _)
(* the finals of the product with the first final node of the other NFA only *)
productFinalsFirst(thisFinal, otherFinal, rest, translate) ==
    IF thisFinal = <<>> \/ otherFinal = <<>> THEN <<>>
    ELSE <<translate[<<Head(thisFinal), Head(otherFinal)>>]>> \o
         productFinals(Tail(thisFinal), otherFinal, rest, translate)

(* the finals of the product, in the order of the two loops *)
productFinals(thisFinal, otherFinal, rest, translate) ==
    IF thisFinal = <<>> THEN <<>>
    ELSE IF rest = <<>> THEN productFinals(Tail(thisFinal), otherFinal, otherFinal, translate)
    ELSE <<translate[<<Head(thisFinal), Head(rest)>>]>> \o
         productFinals(thisFinal, otherFinal, Tail(rest), translate)

intersect(H, self, left, right) ==
    LET H0 == checkOptionsCompatibility(H, left.options, right.options)
        c == newNFA(H0, self, left.options)
        thisIndexed == ReachOut(H, {left.initial})
        otherIndexed == ReachOut(H, {right.initial})
        pairs == (thisIndexed \X otherIndexed) \ {<<left.initial, right.initial>>}
        before(p, q) == (p[1] # q[1] /\ Before(p[1], q[1])) \/ (p[1] = q[1] /\ Before(p[2], q[2]))
        translate == [p \in thisIndexed \X otherIndexed |->
                        IF p = <<left.initial, right.initial>> THEN c.nfa.initial
                        ELSE <<self, Cardinality({q \in pairs : before(q, p)})>>]
        E == {e \in {<<translate[<<k[1], m[1]>>], translate[<<k[2], m[2]>>],
                       CharSetIntersect(H.out[k], H.out[m])>> :
                     k \in {q \in DOMAIN H.out : q[1] \in thisIndexed},
                     m \in {q \in DOMAIN H.out : q[1] \in otherIndexed}} :
                e[3].chars # {}}
        final == productFinals(left.final, right.final, right.final, translate)
        renamed(o) == [h |-> o.h, nfa |-> o.base]
        optimized(r) ==
            IF r.h.err # "ok" THEN [h |-> r.h, nfa |-> c.nfa]
            ELSE renamed(baseOptimizationReuseFinalStates(r.h, self,
                    [initial |-> c.nfa.initial, final |-> r.final, options |-> left.options]))
        pruned(H2) ==
            optimized(removeUnreachable(H2, self,
                                        [initial |-> c.nfa.initial, final |-> final]))
    IN IF H0.err # "ok" THEN [h |-> H0, nfa |-> c.nfa]
       ELSE IF ~(Range(left.final) \subseteq thisIndexed /\ Range(right.final) \subseteq otherIndexed)
            THEN [h |-> [c.h EXCEPT !.err = "not-indexed"], nfa |-> c.nfa]
       ELSE pruned(LinkAll(createNodes(c.h, self, Cardinality(pairs)), self, E))

(***************************************************************************)
(* fromRegex.  The AST is a tree of records: Expression and Alternation    *)
(* [type, alternatives], Concatenation [type, elements], Quantifier        *)
(* [type, alternatives, min, max], CharacterClass [type, characters],      *)
(* Assertion [type]; an array of alternatives is [type |-> "Array",        *)
(* alternatives].                                                          *)
(***************************************************************************)
RECURSIVE handleAlternation(_, _, _, _)
RECURSIVE alternationLoop(_, _, _, _, _, _)
RECURSIVE handleConcatenation(_, _, _, _)
RECURSIVE concatenationLoop(_, _, _, _, _)
RECURSIVE handleQuantifier(_, _, _, _)
RECURSIVE handleElement(_, _, _, _, _)

handleAlternation(H, self, alternatives, options) ==
    IF Len(alternatives) = 0
    THEN [h |-> createNode(H, self), base |-> [initial |-> newNode(H, self), final |-> <<>>]]
    ELSE alternationLoop(handleConcatenation(H, self, alternatives[1], options),
                         self, alternatives, 2, Len(alternatives), options)

(* for (let i = 1, l = alternatives.length; i < l; i++) baseUnion(...) *)
alternationLoop(S, self, alternatives, i, l, options) ==
    IF i > l \/ S.h.err # "ok" THEN S
    ELSE LET unite(c) ==
                IF c.h.err # "ok" THEN [h |-> c.h, base |-> S.base]
                ELSE baseUnion(c.h, self, S.base, c.base)
         IN alternationLoop(unite(handleConcatenation(S.h, self, alternatives[i], options)),
                            self, alternatives, i + 1, l, options)

handleConcatenation(H, self, concatenation, options) ==
    concatenationLoop([h |-> createNode(H, self),
                       base |-> [initial |-> newNode(H, self), final |-> <<newNode(H, self)>>]],
                      self, concatenation.elements, 1, options)

(* the loop of handleConcatenation, ended after its first element *)
concatenationLoopOnce(S, self, elements, i, options) ==
    IF i > Len(elements) \/ i > 1 THEN S
    ELSE handleElement(S.h, self, elements[i], S.base, options)

(* for (let i = 0, l = elements.length; i < l; i++) { if (empty) break; ... } *)
concatenationLoop(S, self, elements, i, options) ==
    IF i > Len(elements) \/ S.h.err # "ok" THEN S
    ELSE IF Len(S.base.final) = 0 THEN S
    ELSE concatenationLoop(handleElement(S.h, self, elements[i], S.base, options),
                           self, elements, i + 1, options)

handleQuantifier(H, self, quant, options) ==
    LET quantified(a) ==
            IF a.h.err # "ok" THEN a
            ELSE baseQuantify(a.h, self, a.base, quant.min, quant.max)
    IN quantified(handleAlternation(H, self, quant.alternatives, options))

handleElement(H, self, element, base, options) ==
    CASE element.type \in {"Alternation", "Quantifier"} ->
            LET appended(a) ==
                    IF a.h.err # "ok" THEN [h |-> a.h, base |-> base]
                    ELSE baseConcat(a.h, self, base, a.base)
            IN appended(IF element.type = "Alternation"
                        THEN handleAlternation(H, self, element.alternatives, options)
                        ELSE handleQuantifier(H, self, element, options))
      [] element.type = "Assertion" ->
            [h |-> [H EXCEPT !.err = "unsupported-construct"], base |-> base]
      [] element.type = "CharacterClass" ->
            LET chars == element.characters
                s == newNode(H, self)
            IN IF chars.maximum # options.maxCharacter
               THEN [h |-> [H EXCEPT !.err = "alphabet-mismatch"], base |-> base]
               ELSE IF chars.chars = {} THEN baseMakeEmpty(H, self, base)
               ELSE [h |-> LinkAll(createNode(H, self), self,
                                   {<<f, s, chars>> : f \in Range(base.final)}),
                     base |-> [base EXCEPT !.final = <<s>>]]

createNodeList(H, self, expression, options) ==
    LET c == newNFA(H, self, options)
        renamed(r) == [h |-> r.h, nfa |-> r.base]
        replaced(a) ==
            IF a.h.err # "ok" THEN [h |-> a.h, nfa |-> c.nfa]
            ELSE renamed(baseReplaceWith(a.h, self, c.nfa, a.base))
    IN replaced(handleAlternation(c.h, self, expression, options))

(* fromRegex, the options of the caller replaced by the larger alphabet *)
fromRegexWidened(H, self, value, options) ==
    createNodeList(H, self,
                   IF value.type = "Concatenation" THEN <<value>> ELSE value.alternatives,
                   [maxCharacter |-> MaxCharacter + 1])

fromRegex(H, self, value, options) ==
    createNodeList(H, self,
                   IF value.type = "Array" THEN value.alternatives
                   ELSE IF value.type = "Concatenation" THEN <<value>>
                   ELSE value.alternatives,
                   options)

(***************************************************************************)
(* fromWords.                                                              *)
(***************************************************************************)
(* The result is [h, node].  Words are sequences of integers, which pass    *)
(* the test of Number.isInteger; nothing tests char against 0.             *)
getNext(H, self, node, char, options) ==
    IF char > options.maxCharacter
    THEN [h |-> [H EXCEPT !.err = "invalid-codepoint"], node |-> node]
    ELSE LET tos == {to \in Keys(H.out, node) : char \in H.out[<<node, to>>].chars}
         IN IF tos # {}
            THEN [h |-> H, node |-> CHOOSE to \in tos : \A t \in tos : Before(to, t)]
            ELSE [h |-> linkNodes(createNode(H, self), self, node, newNode(H, self),
                                  CharSetUnion(CharSetOf({}, options.maxCharacter),
                                               CharSetOf({char}, options.maxCharacter))),
                  node |-> newNode(H, self)]

(* for (const charCode of word) node = getNext(node, charCode) *)
RECURSIVE walkWord(_, _, _, _, _)
walkWord(S, self, word, i, options) ==
    IF i > Len(word) \/ S.h.err # "ok" THEN S
    ELSE walkWord(getNext(S.h, self, S.node, word[i], options), self, word, i + 1, options)

(* for (const word of words) { ...; nodeList.final.add(node) } *)
RECURSIVE wordsLoop(_, _, _, _, _)
wordsLoop(S, self, words, i, options) ==
    IF i > Len(words) \/ S.h.err # "ok" THEN S
    ELSE LET walked(w) ==
                [h |-> w.h,
                 nfa |-> IF w.h.err # "ok" THEN S.nfa
                         ELSE [S.nfa EXCEPT !.final = SetAdd(@, w.node)]]
         IN wordsLoop(walked(walkWord([h |-> S.h, node |-> S.nfa.initial],
                                      self, words[i], 1, options)),
                      self, words, i + 1, options)

fromWords(H, self, words, options) ==
    LET renamed(o) == [h |-> o.h, nfa |-> o.base]
        optimized(t) ==
            IF t.h.err # "ok" THEN t
            ELSE renamed(baseOptimizationReuseFinalStates(t.h, self, t.nfa))
    IN optimized(wordsLoop(newNFA(H, self, options), self, words, 1, options))

(***************************************************************************)
(* fromDFA.  A DFA is [nodes |-> [initial, final], out, options]: out[d]   *)
(* maps the characters of the transitions of the DFA node d to their       *)
(* target nodes.                                                           *)
(***************************************************************************)
(* the targets of a DFA node, each with the union of the characters that lead to it *)
invertCharMap(charMap, maximum) ==
    [to \in {charMap[c] : c \in DOMAIN charMap} |->
        CharSetOf({c \in DOMAIN charMap : charMap[c] = to}, maximum)]

(* DFS(dfa.nodes.initial, dfaNode => invertCharMap(dfaNode.out, ...).keys()) *)
RECURSIVE ReachDFA(_, _)
ReachDFA(dfa, S) ==
    LET T == S \cup UNION {{dfa.out[d][c] : c \in DOMAIN dfa.out[d]} : d \in S}
    IN IF T = S THEN S ELSE ReachDFA(dfa, T)

fromDFA(H, self, dfa) ==
    LET options == [maxCharacter |-> dfa.options.maxCharacter]
        c == newNFA(H, self, options)
        visited == ReachDFA(dfa, {dfa.nodes.initial})
        others == visited \ {dfa.nodes.initial}
        translate == [d \in visited |->
                        IF d = dfa.nodes.initial THEN c.nfa.initial
                        ELSE <<self, Cardinality({m \in others : m <= d})>>]
        H1 == createNodes(c.h, self, Cardinality(others))
        E == UNION {LET byNode == invertCharMap(dfa.out[d], options.maxCharacter)
                    IN {<<translate[d], translate[to], byNode[to]>> : to \in DOMAIN byNode} :
                    d \in visited}
    IN [h |-> LinkAll(H1, self, E), nfa |-> c.nfa]

(***************************************************************************)
(* The state machine.  heap and nfas are the program's objects; last       *)
(* records the operation that was called last, its arguments and the error *)
(* it threw ("ok" when it returned).                                       *)
(***************************************************************************)
Options == [maxCharacter |-> MaxCharacter]

Call(op, a, b, min, max, input, err) ==
    [op |-> op, a |-> a, b |-> b, min |-> min, max |-> max, input |-> input, err |-> err]

Init ==
    /\ heap = EmptyHeap
    /\ nfas = <<>>
    /\ last = Call("init", 0, 0, 0, 0, <<>>, "ok")

(* a static operation returned r: a thrown error leaves no new NFA behind *)
Created(op, r, a, b, input) ==
    /\ IF r.h.err = "ok"
       THEN heap' = r.h /\ nfas' = Append(nfas, r.nfa)
       ELSE UNCHANGED <<heap, nfas>>
    /\ last' = Call(op, a, b, 0, 0, input, r.h.err)

(* a method of nfas[a] returned r *)
Altered(op, r, a, b, min, max) ==
    /\ heap' = [r.h EXCEPT !.err = "ok"]
    /\ nfas' = [nfas EXCEPT ![a] = r.nfa]
    /\ last' = Call(op, a, b, min, max, <<>>, r.h.err)

FromRegex(value) ==
    Created("fromRegex", fromRegex(heap, Len(nfas) + 1, value, Options), 0, 0, value)

FromWords(words) ==
    Created("fromWords", fromWords(heap, Len(nfas) + 1, words, Options), 0, 0, words)

FromDFA(dfa) ==
    Created("fromDFA", fromDFA(heap, Len(nfas) + 1, dfa), 0, 0, dfa)

Union(a, b) ==
    Altered("union", union(heap, a, nfas[a], nfas[b], a = b), a, b, 0, 0)

Concat(a, b) ==
    Altered("concat", concat(heap, a, nfas[a], nfas[b], a = b), a, b, 0, 0)

Quantify(a, min, max) ==
    Altered("quantify", quantify(heap, a, nfas[a], min, max), a, 0, min, max)

QuantifyNumber(a, min, max) ==
    Altered("quantify", quantifyNumber(heap, a, nfas[a], min, max), a, 0, min, max)

Copy(a) ==
    Created("copy", copy(heap, Len(nfas) + 1, nfas[a]), a, 0, <<>>)

Intersect(a, b) ==
    Created("intersect", intersect(heap, Len(nfas) + 1, nfas[a], nfas[b]), a, b, <<>>)

(* fromRegex and fromWords with the options of the caller's choice *)
FromRegexIn(value, options) ==
    Created("fromRegex", fromRegex(heap, Len(nfas) + 1, value, options), 0, 0, value)

FromWordsIn(words, options) ==
    Created("fromWords", fromWords(heap, Len(nfas) + 1, words, options), 0, 0, words)

(* nodeList.linkNodes(from, to, characters) called on the list of nfas[a] *)
LinkNodes(a, from, to, characters) ==
    LET H == linkNodes(heap, a, from, to, characters)
    IN /\ heap' = [H EXCEPT !.err = "ok"]
       /\ UNCHANGED nfas
       /\ last' = Call("linkNodes", a, 0, 0, 0, <<>>, H.err)

UnlinkNodes(a, from, to) ==
    LET H == unlinkNodes(heap, a, from, to)
    IN /\ heap' = [H EXCEPT !.err = "ok"]
       /\ UNCHANGED nfas
       /\ last' = Call("unlinkNodes", a, 0, 0, 0, <<>>, H.err)

CreateNode(a) ==
    /\ heap' = createNode(heap, a)
    /\ UNCHANGED nfas
    /\ last' = Call("createNode", a, 0, 0, 0, <<>>, "ok")

(* new NodeList() *)
NewNodeList ==
    LET c == newNFA(heap, Len(nfas) + 1, Options)
    IN /\ heap' = c.h
       /\ nfas' = Append(nfas, c.nfa)
       /\ last' = Call("newNodeList", Len(nfas) + 1, 0, 0, 0, <<>>, "ok")

(* nodeList.final.add(node) *)
FinalAdd(a, node) ==
    /\ nfas' = [nfas EXCEPT ![a].final = SetAdd(@, node)]
    /\ UNCHANGED heap
    /\ last' = Call("final.add", a, 0, 0, 0, <<>>, "ok")

(* nodeList.final.delete(node) *)
FinalDelete(a, node) ==
    /\ nfas' = [nfas EXCEPT ![a].final = SetDelete(@, node)]
    /\ UNCHANGED heap
    /\ last' = Call("final.delete", a, 0, 0, 0, <<>>, "ok")

RemoveUnreachable(a) ==
    LET r == removeUnreachable(heap, a, nfas[a])
    IN /\ heap' = [r.h EXCEPT !.err = "ok"]
       /\ nfas' = [nfas EXCEPT ![a].final = r.final]
       /\ last' = Call("removeUnreachable", a, 0, 0, 0, <<>>, r.h.err)

RECURSIVE Sum(_)
Sum(s) == IF s = <<>> THEN 0 ELSE Head(s) + Sum(Tail(s))

(* the nodes created so far *)
Nodes(H) == Sum(H.n)

AllNodes(H) == UNION {{<<l, i>> : i \in 0..(H.n[l] - 1)} : l \in 1..Len(H.n)}

(***************************************************************************)
(* Inputs.                                                                 *)
(***************************************************************************)
Characters == 0..MaxCharacter

CharacterClass(chars) ==
    [type |-> "CharacterClass", characters |-> CharSetOf(chars, MaxCharacter)]

Concatenation(elements) == [type |-> "Concatenation", elements |-> elements]

Quantifier(alternatives, min, max) ==
    [type |-> "Quantifier", alternatives |-> alternatives, min |-> min, max |-> max]

Alternation(alternatives) == [type |-> "Alternation", alternatives |-> alternatives]

Expression(alternatives) == [type |-> "Expression", alternatives |-> alternatives]

Array(alternatives) == [type |-> "Array", alternatives |-> alternatives]

(* the sequences of at most n elements of S *)
Seqs(S, n) == UNION {[1..k -> S] : k \in 0..n}

(* the regexes  1,  0*,  0[01]|,  (0|11)+  *)
SomeRegexes ==
    { Array(<<Concatenation(<<CharacterClass({1})>>)>>),
      Concatenation(<<Quantifier(<<Concatenation(<<CharacterClass({0})>>)>>, 0, Infinity)>>),
      Expression(<<Concatenation(<<CharacterClass({0}), CharacterClass({0, 1})>>),
                   Concatenation(<<>>)>>),
      Concatenation(<<Quantifier(<<Concatenation(<<CharacterClass({0})>>),
                                   Concatenation(<<CharacterClass({1}), CharacterClass({1})>>)>>,
                                 1, Infinity)>>) }

SomeWords ==
    { <<>>, << <<>> >>, << <<0>> >>, << <<0, 1>>, <<1>> >>, << <<>>, <<1>>, <<1, 1>> >> }

SomeRanges == {<<0, 0>>, <<2, 2>>, <<1, 3>>, <<0, Infinity>>, <<2, Infinity>>}

MaxMin == 2
MaxMax == 3

(* the valid arguments of quantify and of a Quantifier *)
ValidRanges == {r \in (0..MaxMin) \X ((0..MaxMax) \cup {Infinity}) : r[1] <= r[2]}

QuantifyRanges == ValidRanges \cup {<<1, 0>>, <<-1, 1>>}

(***************************************************************************)
(* Spec: automata are built and then altered by any sequence of the        *)
(* operations of the facade, while the heap has at most MaxNodes nodes.    *)
(***************************************************************************)
Next ==
    \/ \E value \in SomeRegexes :
            Len(nfas) < MaxNFAs /\ FromRegex(value) /\ Nodes(heap') <= MaxNodes
    \/ \E words \in SomeWords :
            Len(nfas) < MaxNFAs /\ FromWords(words) /\ Nodes(heap') <= MaxNodes
    \/ \E a \in 1..Len(nfas), b \in 1..Len(nfas) : Union(a, b) /\ Nodes(heap') <= MaxNodes
    \/ \E a \in 1..Len(nfas), b \in 1..Len(nfas) : Concat(a, b) /\ Nodes(heap') <= MaxNodes
    \/ \E a \in 1..Len(nfas), r \in SomeRanges :
            Quantify(a, r[1], r[2]) /\ Nodes(heap') <= MaxNodes
    \/ \E a \in 1..Len(nfas) : Len(nfas) < MaxNFAs /\ Copy(a) /\ Nodes(heap') <= MaxNodes
    \/ \E a \in 1..Len(nfas), b \in 1..Len(nfas) :
            Len(nfas) < MaxNFAs /\ Intersect(a, b) /\ Nodes(heap') <= MaxNodes

Spec == Init /\ [][Next]_vars

(***************************************************************************)
(* Languages, as sets of the words of at most MaxWordLen characters.       *)
(***************************************************************************)
Words == Seqs(Characters, MaxWordLen)

Lang(H, nfa) == {w \in Words : test(H, nfa, w)}

LangConcat(A, B) ==
    {w \in Words : \E k \in 0..Len(w) :
        SubSeq(w, 1, k) \in A /\ SubSeq(w, k + 1, Len(w)) \in B}

RECURSIVE LangPower(_, _)
LangPower(L, k) == IF k = 0 THEN {<<>>} ELSE LangConcat(LangPower(L, k - 1), L)

(* the union of L^k for min <= k <= max; a word of at most MaxWordLen      *)
(* characters that is in some L^k is in one with k <= min + MaxWordLen     *)
LangQuantify(L, min, max) ==
    UNION {LangPower(L, k) :
            k \in min..(IF max < min + MaxWordLen THEN max ELSE min + MaxWordLen)}

InitialHasNoIncoming(H, nfa) ==
    /\ Keys(H.in, nfa.initial) = {}
    /\ \A k \in DOMAIN H.out : k[2] # nfa.initial

(* C1: after every operation of the facade has returned, the initial node  *)
(* of every NFA has no incoming edge: its in map is empty and no out map   *)
(* names it.                                                               *)
C1_Normalization ==
    \A a \in 1..Len(nfas) : InitialHasNoIncoming(heap, nfas[a])

C1_Witness ==
    /\ last.op = "quantify" /\ last.err = "ok" /\ last.max = Infinity
    /\ Keys(heap.out, nfas[last.a].initial) # {}
    /\ \E k \in DOMAIN heap.out : k[1] = k[2]

(***************************************************************************)
(* SpecRegex: fromRegex is called once, on an AST of Regexes.              *)
(***************************************************************************)
Classes == {CharacterClass(chars) : chars \in SUBSET Characters}

Letters == {CharacterClass({c}) : c \in Characters}

(* concatenations of character classes, and lists of them *)
FlatConcatenations == {Concatenation(e) : e \in Seqs(Classes, 2)}

FlatAlternatives == Seqs(FlatConcatenations, 2)

(* concatenations of single characters and of the empty class *)
InnerConcatenations ==
    {Concatenation(e) : e \in Seqs(Letters \cup {CharacterClass({})}, 2)}

InnerAlternatives == Seqs(InnerConcatenations, 2)

Affixes == {<<>>, <<CharacterClass({0})>>}

QuantifierElements ==
    {Quantifier(alternatives, r[1], r[2]) : alternatives \in InnerAlternatives, r \in ValidRanges}

(* a quantifier of one character, inside a quantified group *)
NestedElements ==
    UNION {LET q == Quantifier(<<Concatenation(<<CharacterClass({1})>>)>>, r[1], r[2])
           IN {Quantifier(<<Concatenation(<<CharacterClass({0}), q>>)>>, o[1], o[2]),
               Quantifier(<<Concatenation(<<q, CharacterClass({0})>>)>>, o[1], o[2]),
               Quantifier(<<Concatenation(<<q>>), Concatenation(<<CharacterClass({0})>>)>>,
                          o[1], o[2]),
               Alternation(<<Concatenation(<<q, q>>), Concatenation(<<>>)>>)} :
           r \in ValidRanges, o \in ValidRanges}

Regexes ==
    {Array(alternatives) : alternatives \in FlatAlternatives}
    \cup {Expression(alternatives) : alternatives \in InnerAlternatives}
    \cup {Concatenation(pre \o <<e>> \o post) :
            pre \in Affixes, post \in Affixes, e \in QuantifierElements \cup NestedElements}
    \cup {Concatenation(pre \o <<Alternation(alternatives)>> \o post) :
            pre \in Affixes, post \in Affixes, alternatives \in InnerAlternatives}

NextRegex == \E value \in Regexes : nfas = <<>> /\ FromRegex(value)

SpecRegex == Init /\ [][NextRegex]_vars

(* the language an AST denotes *)
RECURSIVE LangAlternatives(_)
RECURSIVE LangElements(_)
RECURSIVE LangElement(_)

LangAlternatives(alternatives) ==
    IF alternatives = <<>> THEN {}
    ELSE LangElements(Head(alternatives).elements) \cup LangAlternatives(Tail(alternatives))

LangElements(elements) ==
    IF elements = <<>> THEN {<<>>}
    ELSE LangConcat(LangElement(Head(elements)), LangElements(Tail(elements)))

LangElement(element) ==
    CASE element.type = "CharacterClass" -> {<<c>> : c \in element.characters.chars}
      [] element.type = "Alternation" -> LangAlternatives(element.alternatives)
      [] element.type = "Quantifier" ->
            LangQuantify(LangAlternatives(element.alternatives), element.min, element.max)

LangRegex(value) ==
    IF value.type = "Concatenation" THEN LangElements(value.elements)
    ELSE LangAlternatives(value.alternatives)

(* C2: fromRegex of an assertion-free AST whose character classes have the *)
(* maximum options.maxCharacter returns an NFA that accepts exactly the    *)
(* language the AST denotes.                                               *)
C2_FromRegexLanguage ==
    last.op = "fromRegex" =>
        /\ last.err = "ok"
        /\ Lang(heap, nfas[Len(nfas)]) = LangRegex(last.input)

C2_Witness ==
    /\ last.op = "fromRegex" /\ last.err = "ok"
    /\ last.input.type = "Concatenation"
    /\ \E i \in 1..Len(last.input.elements) :
            /\ last.input.elements[i].type = "Quantifier"
            /\ last.input.elements[i].min = 2 /\ last.input.elements[i].max = 3
    /\ <<0, 1, 1, 0>> \in Lang(heap, nfas[Len(nfas)])

(***************************************************************************)
(* SpecPair: two automata are built, then one of union, concat and         *)
(* intersect is called on them.                                            *)
(***************************************************************************)
(* SomeRegexes and  [],  (1|0{2,3})?0,  (|1)(0|01),  0[^\s\S]|1+  *)
PairRegexes ==
    SomeRegexes \cup
    { Array(<<>>),
      Concatenation(<<Quantifier(<<Concatenation(<<CharacterClass({1})>>),
                                   Concatenation(<<Quantifier(
                                        <<Concatenation(<<CharacterClass({0})>>)>>, 2, 3)>>)>>,
                                 0, 1),
                      CharacterClass({0})>>),
      Concatenation(<<Alternation(<<Concatenation(<<>>),
                                    Concatenation(<<CharacterClass({1})>>)>>),
                      Alternation(<<Concatenation(<<CharacterClass({0})>>),
                                    Concatenation(<<CharacterClass({0}), CharacterClass({1})>>)>>)>>),
      Expression(<<Concatenation(<<CharacterClass({0}), CharacterClass({})>>),
                   Concatenation(<<Quantifier(<<Concatenation(<<CharacterClass({1})>>)>>,
                                              1, Infinity)>>)>>) }

PairWords ==
    SomeWords \cup
    { << <<1>>, <<0>> >>, << <<0, 0>>, <<0>>, <<0, 0, 1>> >>, << <<1, 0, 1>>, <<0, 0, 1>> >> }

Built == last.op \in {"fromRegex", "fromWords"}

NextPair ==
    \/ \E value \in PairRegexes : Len(nfas) < 2 /\ FromRegex(value)
    \/ \E words \in PairWords : Len(nfas) < 2 /\ FromWords(words)
    \/ \E a \in 1..2, b \in 1..2 : Len(nfas) = 2 /\ Built /\ Union(a, b)
    \/ \E a \in 1..2, b \in 1..2 : Len(nfas) = 2 /\ Built /\ Concat(a, b)
    \/ \E a \in 1..2, b \in 1..2 : Len(nfas) = 2 /\ Built /\ Intersect(a, b)

SpecPair == Init /\ [][NextPair]_vars

(* the adjacency maps of the nodes of a list *)
EdgesOf(H, list) ==
    [out |-> [k \in {q \in DOMAIN H.out : q[1][1] = list} |-> H.out[k]],
     in |-> [k \in {q \in DOMAIN H.in : q[1][1] = list} |-> H.in[k]],
     n |-> H.n[list]]

(* C3: a.union(b), for two distinct NFAs, returns with a accepting exactly *)
(* L(a) \cup L(b), and leaves the nodes, the edges and the final set of b  *)
(* as they were.                                                           *)
C3_Union ==
    [][(last'.op = "union" /\ last'.a # last'.b) =>
        /\ last'.err = "ok"
        /\ Lang(heap', nfas'[last'.a]) =
                Lang(heap, nfas[last'.a]) \cup Lang(heap, nfas[last'.b])
        /\ nfas'[last'.b] = nfas[last'.b]
        /\ EdgesOf(heap', last'.b) = EdgesOf(heap, last'.b)]_vars

C3_Witness ==
    /\ last.op = "union" /\ last.err = "ok" /\ last.a # last.b
    /\ Lang(heap, nfas[last.b]) # {}
    /\ Lang(heap, nfas[last.a]) # Lang(heap, nfas[last.b])
    /\ Len(nfas[last.a].final) > 1

(* C4: a.concat(b), for two distinct NFAs, returns without an error with a *)
(* accepting exactly L(a).L(b), and leaves the nodes, the edges and the    *)
(* final set of b as they were.                                            *)
C4_Concat ==
    [][(last'.op = "concat" /\ last'.a # last'.b) =>
        /\ last'.err = "ok"
        /\ Lang(heap', nfas'[last'.a]) =
                LangConcat(Lang(heap, nfas[last'.a]), Lang(heap, nfas[last'.b]))
        /\ nfas'[last'.b] = nfas[last'.b]
        /\ EdgesOf(heap', last'.b) = EdgesOf(heap, last'.b)]_vars

(* C6: intersect(left, right) returns a new NFA that accepts exactly       *)
(* L(left) \cap L(right), and leaves left and right as they were.          *)
C6_Intersect ==
    [][last'.op = "intersect" =>
        /\ last'.err = "ok"
        /\ Len(nfas') = Len(nfas) + 1
        /\ Lang(heap', nfas'[Len(nfas')]) =
                Lang(heap, nfas[last'.a]) \cap Lang(heap, nfas[last'.b])
        /\ \A a \in 1..Len(nfas) :
                nfas'[a] = nfas[a] /\ EdgesOf(heap', a) = EdgesOf(heap, a)]_vars

C6_Witness ==
    /\ last.op = "intersect" /\ last.err = "ok" /\ last.a # last.b
    /\ Lang(heap, nfas[3]) # {}
    /\ Lang(heap, nfas[3]) # Lang(heap, nfas[1])
    /\ Lang(heap, nfas[3]) # Lang(heap, nfas[2])
    /\ heap.n[3] > Cardinality(ReachOut(heap, {nfas[3].initial}))

(***************************************************************************)
(* SpecQuantify: an automaton is built, then quantify is called on it.     *)
(***************************************************************************)
NextQuantify ==
    \/ \E alternatives \in FlatAlternatives : nfas = <<>> /\ FromRegex(Array(alternatives))
    \/ \E words \in PairWords : nfas = <<>> /\ FromWords(words)
    \/ \E r \in QuantifyRanges : Len(nfas) = 1 /\ Built /\ Quantify(1, r[1], r[2])

SpecQuantify == Init /\ [][NextQuantify]_vars

(* C5: quantify(min, max) with 0 <= min <= max on an NFA with the language *)
(* L returns with the NFA accepting exactly the union of L^k over          *)
(* min <= k <= max.                                                        *)
C5_Quantify ==
    [][(last'.op = "quantify" /\ 0 <= last'.min /\ last'.min <= last'.max) =>
        /\ last'.err = "ok"
        /\ Lang(heap', nfas'[last'.a]) =
                LangQuantify(Lang(heap, nfas[last'.a]), last'.min, last'.max)]_vars

C5_Witness ==
    /\ last.op = "quantify" /\ last.err = "ok" /\ last.min = 2 /\ last.max = Infinity
    /\ <<0, 1, 0, 1>> \in Lang(heap, nfas[1])
    /\ <<0, 1>> \notin Lang(heap, nfas[1])
    /\ <<>> \notin Lang(heap, nfas[1])

(***************************************************************************)
(* SpecWords: fromWords is called once, on a list of at most MaxWords      *)
(* words of at most MaxLetters characters.                                 *)
(***************************************************************************)
MaxWords == 3
MaxLetters == 2

WordLists == Seqs(Seqs(Characters, MaxLetters), MaxWords)

NextWords == \E words \in WordLists : nfas = <<>> /\ FromWords(words)

SpecWords == Init /\ [][NextWords]_vars

(* C7: fromWords returns an NFA that accepts all and only the given words. *)
C7_FromWords ==
    last.op = "fromWords" =>
        /\ last.err = "ok"
        /\ Lang(heap, nfas[Len(nfas)]) = Range(last.input)

C7_Witness ==
    /\ last.op = "fromWords" /\ last.err = "ok"
    /\ Range(last.input) = {<<0>>, <<0, 0>>, <<0, 1>>}
    /\ Len(nfas[1].final) = 2
    /\ Cardinality(DOMAIN heap.out) = 2

(***************************************************************************)
(* SpecDFA: fromDFA is called once, on a DFA of at most MaxDfaNodes nodes. *)
(***************************************************************************)
MaxDfaNodes == 2

DfaNodes == 1..MaxDfaNodes

CharMaps == UNION {[S -> DfaNodes] : S \in SUBSET Characters}

DFAs ==
    {[nodes |-> [initial |-> 1, final |-> F], out |-> o, options |-> Options] :
        F \in SUBSET DfaNodes, o \in [DfaNodes -> CharMaps]}

NextDFA == \E dfa \in DFAs : nfas = <<>> /\ FromDFA(dfa)

SpecDFA == Init /\ [][NextDFA]_vars

RECURSIVE dfaMatch(_, _, _, _)
dfaMatch(dfa, characters, index, node) ==
    IF index > Len(characters) THEN node \in dfa.nodes.final
    ELSE /\ characters[index] \in DOMAIN dfa.out[node]
         /\ dfaMatch(dfa, characters, index + 1, dfa.out[node][characters[index]])

LangDFA(dfa) == {w \in Words : dfaMatch(dfa, w, 1, dfa.nodes.initial)}

(* C8: fromDFA returns an NFA that mirrors the DFA: it has as many final   *)
(* nodes as the DFA has final nodes that its initial node reaches, and it  *)
(* accepts exactly the language of the DFA.                                *)
C8_FromDFA ==
    last.op = "fromDFA" =>
        /\ last.err = "ok"
        /\ Len(nfas[Len(nfas)].final) =
                Cardinality(ReachDFA(last.input, {1}) \cap last.input.nodes.final)
        /\ Lang(heap, nfas[Len(nfas)]) = LangDFA(last.input)

(***************************************************************************)
(* SpecPrune: one NodeList of at most MaxPruneNodes nodes, whose nodes are *)
(* linked, unlinked and made final in any order, and pruned.               *)
(***************************************************************************)
MaxPruneNodes == 3

Zero == CharSetOf({0}, MaxCharacter)

NextPrune ==
    \/ nfas = <<>> /\ NewNodeList
    \/ Len(nfas) = 1 /\ heap.n[1] < MaxPruneNodes /\ CreateNode(1)
    \/ \E from \in AllNodes(heap), to \in AllNodes(heap) : LinkNodes(1, from, to, Zero)
    \/ \E from \in AllNodes(heap), to \in AllNodes(heap) : UnlinkNodes(1, from, to)
    \/ \E node \in AllNodes(heap) : FinalAdd(1, node)
    \/ \E node \in AllNodes(heap) : FinalDelete(1, node)
    \/ Len(nfas) = 1 /\ RemoveUnreachable(1)

SpecPrune == Init /\ [][NextPrune]_vars

(* C9: when removeUnreachable has returned, either final is empty and the  *)
(* initial node has no outgoing edge, or every final node is reachable     *)
(* from the initial node and every node reachable from the initial node    *)
(* reaches a final node.                                                   *)
C9_PruningSafety ==
    (last.op = "removeUnreachable" /\ last.err = "ok") =>
        LET nodeList == nfas[last.a]
            reachable == ReachOut(heap, {nodeList.initial})
        IN \/ nodeList.final = <<>> /\ Keys(heap.out, nodeList.initial) = {}
           \/ /\ Range(nodeList.final) \subseteq reachable
              /\ \A node \in reachable :
                    ReachOut(heap, {node}) \cap Range(nodeList.final) # {}

C9_Witness ==
    /\ last.op = "removeUnreachable" /\ last.err = "ok"
    /\ heap.n[1] = 3
    /\ nfas[1].final = <<<<1, 1>>>>
    /\ DOMAIN heap.out = {<<<<1, 0>>, <<1, 1>>>>}
    /\ DOMAIN heap.in = {<<<<1, 1>>, <<1, 0>>>>}

(***************************************************************************)
(* SpecLink: automata are built from regexes and words and altered by      *)
(* union, concat and quantify while the heap has at most MaxBuiltNodes     *)
(* nodes and MaxBuiltEdges edges; the nodes of the first automaton are     *)
(* linked and unlinked directly, before a second one is built, while it    *)
(* has at most MaxLinkNodes nodes and MaxLinkEdges edges.                  *)
(***************************************************************************)
MaxBuiltNodes == 5
MaxBuiltEdges == 3
MaxLinkNodes == 3
MaxLinkEdges == 2

LinkLabels == {CharSetOf(chars, MaxCharacter) : chars \in SUBSET Characters}

Bounded(H) == Nodes(H) <= MaxBuiltNodes /\ Cardinality(DOMAIN H.out) <= MaxBuiltEdges

Small(H) == Nodes(H) <= MaxLinkNodes /\ Cardinality(DOMAIN H.out) <= MaxLinkEdges

NextLink ==
    \/ \E value \in SomeRegexes : Len(nfas) < MaxNFAs /\ FromRegex(value) /\ Bounded(heap')
    \/ \E words \in SomeWords : Len(nfas) < MaxNFAs /\ FromWords(words) /\ Bounded(heap')
    \/ \E a \in 1..Len(nfas), b \in 1..Len(nfas) : Union(a, b) /\ Bounded(heap')
    \/ \E a \in 1..Len(nfas), b \in 1..Len(nfas) : Concat(a, b) /\ Bounded(heap')
    \/ \E a \in 1..Len(nfas), r \in {<<2, 2>>, <<0, Infinity>>} :
            Quantify(a, r[1], r[2]) /\ Bounded(heap')
    \/ \E from \in AllNodes(heap), to \in AllNodes(heap), characters \in LinkLabels :
            Len(nfas) = 1 /\ LinkNodes(1, from, to, characters) /\ Small(heap')
    \/ \E from \in AllNodes(heap), to \in AllNodes(heap) :
            Len(nfas) = 1 /\ UnlinkNodes(1, from, to) /\ Small(heap)

SpecLink == Init /\ [][NextLink]_vars

(* C10: a.out maps b to a set S if and only if b.in maps a to the same S,  *)
(* for all nodes a and b of every list.                                    *)
C10_AdjacencySymmetry ==
    \A a \in AllNodes(heap), b \in AllNodes(heap) :
        /\ <<a, b>> \in DOMAIN heap.out <=> <<b, a>> \in DOMAIN heap.in
        /\ <<a, b>> \in DOMAIN heap.out => heap.out[<<a, b>>] = heap.in[<<b, a>>]

C10_Witness ==
    /\ last.op = "unlinkNodes" /\ last.err = "ok"
    /\ \E a \in AllNodes(heap) :
            /\ <<a, a>> \in DOMAIN heap.out
            /\ heap.out[<<a, a>>].chars = Characters
            /\ heap.in[<<a, a>>].chars = Characters
    /\ Cardinality(DOMAIN heap.out) = 1

(***************************************************************************)
(* SpecAlphabet: automata over two alphabets, 0..MaxCharacter and          *)
(* 0..MaxCharacter + 1, are built by fromRegex, fromWords, fromDFA, copy   *)
(* and intersect and altered by union, concat and quantify, while the heap *)
(* has at most MaxNodes nodes.                                             *)
(***************************************************************************)
WideOptions == [maxCharacter |-> MaxCharacter + 1]

WideClass(chars) ==
    [type |-> "CharacterClass", characters |-> CharSetOf(chars, MaxCharacter + 1)]

(* the regexes  1,  0*,  [01]1  with classes of either alphabet *)
AlphabetRegexes ==
    { Concatenation(<<CharacterClass({1})>>),
      Concatenation(<<WideClass({1})>>),
      Concatenation(<<Quantifier(<<Concatenation(<<WideClass({0})>>)>>, 0, Infinity)>>),
      Concatenation(<<CharacterClass({0, 1}), WideClass({1})>>) }

AlphabetWords == { << <<>> >>, << <<0>> >>, << <<MaxCharacter + 1>>, <<0, 1>> >> }

AlphabetDFAs ==
    {[nodes |-> [initial |-> 1, final |-> {2}],
      out |-> <<[c \in {0, 1} |-> 2], [c \in {0} |-> 2]>>,
      options |-> options] : options \in {Options, WideOptions}}

NextAlphabet ==
    \/ \E value \in AlphabetRegexes, options \in {Options, WideOptions} :
            Len(nfas) < MaxNFAs /\ FromRegexIn(value, options) /\ Nodes(heap') <= MaxNodes
    \/ \E words \in AlphabetWords, options \in {Options, WideOptions} :
            Len(nfas) < MaxNFAs /\ FromWordsIn(words, options) /\ Nodes(heap') <= MaxNodes
    \/ \E dfa \in AlphabetDFAs :
            Len(nfas) < MaxNFAs /\ FromDFA(dfa) /\ Nodes(heap') <= MaxNodes
    \/ \E a \in 1..Len(nfas) : Len(nfas) <= MaxNFAs /\ Copy(a) /\ Nodes(heap') <= MaxNodes
    \/ \E a \in 1..Len(nfas), b \in 1..Len(nfas) :
            Len(nfas) <= MaxNFAs /\ Intersect(a, b) /\ Nodes(heap') <= MaxNodes
    \/ \E a \in 1..Len(nfas), b \in 1..Len(nfas) : Union(a, b) /\ Nodes(heap') <= MaxNodes
    \/ \E a \in 1..Len(nfas), b \in 1..Len(nfas) : Concat(a, b) /\ Nodes(heap') <= MaxNodes
    \/ \E a \in 1..Len(nfas), r \in {<<0, 1>>, <<2, 2>>, <<1, Infinity>>} :
            Quantify(a, r[1], r[2]) /\ Nodes(heap') <= MaxNodes

SpecAlphabet == Init /\ [][NextAlphabet]_vars

(* C11: the label of every edge that the initial node of an NFA reaches    *)
(* has the maximum options.maxCharacter of that NFA.                       *)
C11_AlphabetUniformity ==
    \A a \in 1..Len(nfas) :
        \A k \in DOMAIN heap.out :
            k[1] \in ReachOut(heap, {nfas[a].initial}) =>
                heap.out[k].maximum = nfas[a].options.maxCharacter

C11_Witness ==
    /\ Len(nfas) = 2
    /\ nfas[1].options # nfas[2].options
    /\ last.op \in {"union", "concat", "quantify"} /\ last.err = "ok"
    /\ \A a \in 1..2 : Keys(heap.out, nfas[a].initial) # {}

(* C13: union, concat and intersect of two distinct NFAs whose             *)
(* maxCharacter differ throw the alphabet-mismatch error and leave every   *)
(* node, edge and final set as it was.                                     *)
C13_AlphabetMismatch ==
    [][(/\ last'.op \in {"union", "concat", "intersect"}
        /\ last'.a # last'.b
        /\ nfas[last'.a].options.maxCharacter # nfas[last'.b].options.maxCharacter) =>
            /\ last'.err = "alphabet-mismatch"
            /\ nfas' = nfas
            /\ heap' = heap]_vars

C13_Witness ==
    /\ last.op = "union" /\ last.err = "alphabet-mismatch"
    /\ Len(nfas) = 2
    /\ \A a \in 1..2 : nfas[a].final # <<>> /\ Keys(heap.out, nfas[a].initial) # {}

(***************************************************************************)
(* quantify called with numbers that need not be integers.                 *)
(***************************************************************************)
MaxWhole == 2

Numbers ==
    {Number(w, h) : w \in -1..MaxWhole, h \in {0, 1}} \cup {Number(Infinity, 0)}

RangeRegexes ==
    { Concatenation(<<>>),
      Concatenation(<<CharacterClass({1})>>),
      Concatenation(<<CharacterClass({0}), CharacterClass({0, 1})>>),
      Alternation(<<Concatenation(<<CharacterClass({0})>>), Concatenation(<<>>)>>) }

NextRange ==
    \/ /\ nfas = <<>>
       /\ \E value \in RangeRegexes : FromRegexIn(value, Options)
    \/ /\ nfas # <<>>
       /\ \E min, max \in Numbers : QuantifyNumber(1, min, max)
       /\ Nodes(heap') <= MaxNodes

SpecRange == Init /\ [][NextRange]_vars

(* twice the value of a number *)
Doubled(x) == 2 * x.whole + x.half

(* C12: quantify fails with invalid-range whenever min is not an integer,  *)
(* max is neither an integer nor infinite, min < 0 or min > max, and the   *)
(* nodes, the edges and the final set of the NFA are then as before        *)
C12_InvalidRange ==
    [][(/\ last'.op = "quantify"
        /\ \/ last'.min.half # 0 \/ last'.min.whole = Infinity
           \/ last'.max.half # 0
           \/ Doubled(last'.min) < 0
           \/ Doubled(last'.min) > Doubled(last'.max)) =>
            /\ last'.err = "invalid-range"
            /\ nfas' = nfas
            /\ heap' = heap]_vars

C12_Witness ==
    /\ last.op = "quantify" /\ last.err = "invalid-range"
    /\ last.min = Number(1, 0) /\ last.max = Number(1, 1)
    /\ nfas[1].final # <<>>
    /\ Cardinality(DOMAIN heap.out) >= 2

(***************************************************************************)
(* fromRegex over ASTs with assertions and with character classes of the   *)
(* larger alphabet, the options being those of the smaller one.            *)
(***************************************************************************)
Assertion(kind, negate, alternatives) ==
    [type |-> "Assertion", kind |-> kind, negate |-> negate, alternatives |-> alternatives]

Lookahead == Assertion("ahead", FALSE, <<Concatenation(<<CharacterClass({0})>>)>>)

MaxElements == 3

RejectElements ==
    { CharacterClass({0}), CharacterClass({}), Lookahead, WideClass({1}),
      Alternation(<<Concatenation(<<CharacterClass({}), Lookahead>>)>>),
      Alternation(<<Concatenation(<<CharacterClass({1})>>), Concatenation(<<Lookahead>>)>>),
      Quantifier(<<Concatenation(<<CharacterClass({})>>)>>, 1, 2),
      Quantifier(<<Concatenation(<<CharacterClass({}), WideClass({0})>>)>>, 0, 1),
      Quantifier(<<Concatenation(<<CharacterClass({0}), WideClass({0})>>)>>, 0, 0) }

RejectRegexes == {Concatenation(e) : e \in Seqs(RejectElements, MaxElements)}

NextReject == \E value \in RejectRegexes : nfas = <<>> /\ FromRegexIn(value, Options)

SpecReject == Init /\ [][NextReject]_vars

RECURSIVE HasAssertion(_)
RECURSIVE HasWideClass(_)
RECURSIVE VoidElement(_)
RECURSIVE VoidElements(_)
RECURSIVE FirstRejected(_)

(* some element of the concatenation, at any depth, is an assertion *)
HasAssertion(concatenation) ==
    \E i \in DOMAIN concatenation.elements :
        LET element == concatenation.elements[i]
        IN \/ element.type = "Assertion"
           \/ /\ element.type \in {"Alternation", "Quantifier"}
              /\ \E j \in DOMAIN element.alternatives : HasAssertion(element.alternatives[j])

(* some element of the concatenation, at any depth, is a character class   *)
(* whose maximum is not that of Options                                    *)
HasWideClass(concatenation) ==
    \E i \in DOMAIN concatenation.elements :
        LET element == concatenation.elements[i]
        IN \/ /\ element.type = "CharacterClass"
              /\ element.characters.maximum # Options.maxCharacter
           \/ /\ element.type \in {"Alternation", "Quantifier"}
              /\ \E j \in DOMAIN element.alternatives : HasWideClass(element.alternatives[j])

(* the element denotes the empty language; of a concatenation only the     *)
(* elements up to the first such element count                             *)
VoidElement(element) ==
    CASE element.type = "CharacterClass" -> element.characters.chars = {}
      [] element.type = "Alternation" ->
            \A j \in DOMAIN element.alternatives : VoidElements(element.alternatives[j].elements)
      [] element.type = "Quantifier" ->
            /\ element.min > 0
            /\ \A j \in DOMAIN element.alternatives :
                    VoidElements(element.alternatives[j].elements)
      [] OTHER -> FALSE

VoidElements(elements) ==
    /\ elements # <<>>
    /\ VoidElement(Head(elements)) \/ VoidElements(Tail(elements))

(* the type of the first element, in the order of the text, that is an     *)
(* assertion or a class of another alphabet and that no element denoting   *)
(* the empty language precedes in its concatenation or in one around it;   *)
(* "none" without such an element                                          *)
FirstRejected(elements) ==
    IF elements = <<>> THEN "none"
    ELSE LET element == Head(elements)
             inner(alternatives) ==
                 LET found == {j \in DOMAIN alternatives :
                                  FirstRejected(alternatives[j].elements) # "none"}
                 IN IF found = {} THEN "none"
                    ELSE FirstRejected(alternatives[CHOOSE j \in found :
                                                        \A k \in found : j <= k].elements)
             here == CASE element.type = "Assertion" -> "Assertion"
                       [] element.type = "CharacterClass" ->
                             IF element.characters.maximum # Options.maxCharacter
                             THEN "CharacterClass" ELSE "none"
                       [] OTHER -> inner(element.alternatives)
         IN IF here # "none" THEN here
            ELSE IF VoidElement(element) THEN "none"
            ELSE FirstRejected(Tail(elements))

(* C14, as stated: fromRegex fails with unsupported-construct for every    *)
(* AST that holds an assertion, at any depth and in any position           *)
C14_AssertionsAnywhere ==
    (last.op = "fromRegex" /\ HasAssertion(last.input)) => last.err = "unsupported-construct"

(* C14: fromRegex fails with unsupported-construct exactly when the first  *)
(* rejected element it comes to is an assertion: an assertion at any depth *)
(* and in any position that no element denoting the empty language         *)
(* precedes in a concatenation on the way to it, and no class of another   *)
(* alphabet comes before                                                   *)
C14_AssertionsVisited ==
    last.op = "fromRegex" =>
        (FirstRejected(last.input.elements) = "Assertion" <=> last.err = "unsupported-construct")

C14_Witness ==
    /\ last.op = "fromRegex" /\ last.err = "unsupported-construct"
    /\ Len(last.input.elements) = 3
    /\ last.input.elements[1].type = "Quantifier"
    /\ last.input.elements[3].type = "Alternation"

(* C19, as stated: fromRegex fails with alphabet-mismatch for every AST    *)
(* that holds a character class whose maximum is not options.maxCharacter, *)
(* whatever precedes the class                                             *)
C19_ClassAnywhere ==
    (last.op = "fromRegex" /\ HasWideClass(last.input)) => last.err = "alphabet-mismatch"

(* C19: fromRegex fails with alphabet-mismatch exactly when the first      *)
(* rejected element it comes to is a character class whose maximum is not  *)
(* options.maxCharacter: such a class that no element denoting the empty   *)
(* language precedes in a concatenation on the way to it, and no assertion *)
(* comes before                                                            *)
C19_ClassVisited ==
    last.op = "fromRegex" =>
        (FirstRejected(last.input.elements) = "CharacterClass" <=> last.err = "alphabet-mismatch")

C19_Witness ==
    /\ last.op = "fromRegex" /\ last.err = "alphabet-mismatch"
    /\ Len(last.input.elements) = 3
    /\ last.input.elements[1].type = "CharacterClass"
    /\ last.input.elements[2].type = "Quantifier"
    /\ last.input.elements[3].type = "CharacterClass"

(***************************************************************************)
(* fromWords over code points below 0 and above maxCharacter.              *)
(***************************************************************************)
MaxCodepointWords == 2

Codepoints == -1..(MaxCharacter + 1)

CodepointWords == Seqs(Seqs(Codepoints, 2), MaxCodepointWords)

NextCodepoints == \E words \in CodepointWords : nfas = <<>> /\ FromWordsIn(words, Options)

SpecCodepoints == Init /\ [][NextCodepoints]_vars

(* C15: fromWords fails with invalid-codepoint for a word with a code      *)
(* point that is above maxCharacter or negative (every code point here is  *)
(* an integer), and no NFA it returns has such a code point in a label     *)
C15_InvalidCodepoint ==
    last.op = "fromWords" =>
        /\ (\E w \in DOMAIN last.input : \E i \in DOMAIN last.input[w] :
                last.input[w][i] \notin 0..Options.maxCharacter) =>
                    last.err = "invalid-codepoint"
        /\ \A k \in DOMAIN heap.out : heap.out[k].chars \subseteq 0..Options.maxCharacter

(***************************************************************************)
(* removeUnreachable called twice in a row, under SpecPrune.               *)
(***************************************************************************)
(* C16: a call of removeUnreachable right after a call of it that has      *)
(* returned alters no in map, no out map and not the final set, and        *)
(* returns as well                                                         *)
C16_Idempotent ==
    [][(/\ last.op = "removeUnreachable" /\ last.err = "ok"
        /\ last'.op = "removeUnreachable") =>
            /\ heap'.in = heap.in
            /\ heap'.out = heap.out
            /\ nfas' = nfas
            /\ last'.err = "ok"]_vars

C16_Witness ==
    /\ last.op = "removeUnreachable" /\ last.err = "ok"
    /\ Cardinality(DOMAIN heap.out) >= 2
    /\ nfas[1].final # <<>>
    /\ heap.n[1] = MaxPruneNodes

(* C20: when removeUnreachable has left the list in its empty-language     *)
(* form, no in map and no out map of any node holds an edge of the initial *)
(* node, in either direction                                               *)
C20_InitialDetached ==
    (last.op = "removeUnreachable" /\ last.err = "ok" /\ nfas[1].final = <<>>) =>
        \A k \in DOMAIN heap.in \cup DOMAIN heap.out :
            k[1] # nfas[1].initial /\ k[2] # nfas[1].initial

(***************************************************************************)
(* linkNodes and unlinkNodes on the nodes of two node lists.               *)
(***************************************************************************)
NextLists ==
    \/ Len(nfas) < MaxNFAs /\ NewNodeList /\ Small(heap')
    \/ \E a \in 1..Len(nfas) : CreateNode(a) /\ Small(heap')
    \/ \E a \in 1..Len(nfas), from \in AllNodes(heap), to \in AllNodes(heap),
          characters \in LinkLabels : LinkNodes(a, from, to, characters) /\ Small(heap')
    \/ \E a \in 1..Len(nfas), from \in AllNodes(heap), to \in AllNodes(heap) :
          UnlinkNodes(a, from, to)

SpecLists == Init /\ [][NextLists]_vars

(* C18: linkNodes(from, to, characters) of two nodes of the list, with     *)
(* characters not empty, leaves one entry for to in from.out and one for   *)
(* from in to.in, each labelled with the union of the label that was there *)
(* (none: the empty set) and characters, and alters no other entry; with   *)
(* nodes of different lists, or of another list than the one called, it    *)
(* fails with cross-list-link, with an empty characters with empty-label,  *)
(* and every in and out map is as before                                   *)
C18_LinkNodes ==
    [][\A a \in 1..Len(nfas), from \in AllNodes(heap), to \in AllNodes(heap),
          characters \in LinkLabels :
            LinkNodes(a, from, to, characters) =>
                IF from[1] # to[1] \/ from[1] # a
                THEN /\ last'.err = "cross-list-link"
                     /\ heap'.in = heap.in /\ heap'.out = heap.out
                ELSE IF characters.chars = {}
                THEN /\ last'.err = "empty-label"
                     /\ heap'.in = heap.in /\ heap'.out = heap.out
                ELSE LET was(map, key) == IF key \in DOMAIN map THEN map[key].chars ELSE {}
                         linked(old, new, key) ==
                            /\ DOMAIN new = DOMAIN old \cup {key}
                            /\ new[key].chars = was(old, key) \cup characters.chars
                            /\ \A k \in DOMAIN old \ {key} : new[k] = old[k]
                     IN /\ last'.err = "ok"
                        /\ linked(heap.out, heap'.out, <<from, to>>)
                        /\ linked(heap.in, heap'.in, <<to, from>>)]_vars

C18_Witness ==
    /\ last.op = "linkNodes" /\ last.err = "ok"
    /\ Len(nfas) = 2
    /\ \E k \in DOMAIN heap.out : k[1] # k[2] /\ heap.out[k].chars = {0, 1}
    /\ Cardinality(DOMAIN heap.out) >= 2

(***************************************************************************)
(* concat with the neutral and with the absorbing language, under          *)
(* SpecAlphabet.                                                           *)
(***************************************************************************)
(* C17: a.concat(e), e another NFA of the same maxCharacter that accepts   *)
(* the empty word and nothing else, returns without an error and a accepts *)
(* what it accepted; and z.concat(a), z accepting nothing and a another    *)
(* NFA of the same maxCharacter, returns without an error and z still      *)
(* accepts nothing                                                         *)
C17_ConcatIdentities ==
    [][(/\ last'.op = "concat" /\ last'.a # last'.b
        /\ nfas[last'.a].options = nfas[last'.b].options) =>
        /\ Lang(heap, nfas[last'.b]) = {<<>>} =>
                /\ last'.err = "ok"
                /\ Lang(heap', nfas'[last'.a]) = Lang(heap, nfas[last'.a])
        /\ Lang(heap, nfas[last'.a]) = {} =>
                /\ last'.err = "ok"
                /\ Lang(heap', nfas'[last'.a]) = {}]_vars

(* C21: removeUnreachable never tries to remove the initial node: whatever *)
(* the edges and the final set of the list, a call of it does not end with *)
(* the error initial-removal                                               *)
C21_InitialKept ==
    last.op = "removeUnreachable" => last.err # "initial-removal"

C21_Witness ==
    /\ last.op = "removeUnreachable" /\ last.err = "ok"
    /\ nfas[1].final # <<>>
    /\ <<nfas[1].initial, nfas[1].initial>> \in DOMAIN heap.out
    /\ \E k \in DOMAIN heap.in : k[1] = nfas[1].initial /\ k[2] # nfas[1].initial
    /\ \E k \in DOMAIN heap.out :
            /\ k[1] = nfas[1].initial
            /\ k[2] # nfas[1].initial
            /\ k[2] \notin Range(nfas[1].final)

(***************************************************************************)
(* The final nodes that baseOptimizationReuseFinalStates merges, under     *)
(* SpecPair.                                                               *)
(***************************************************************************)
(* the final nodes other than the initial node that have no outgoing edge *)
Reusable(H, nfa) ==
    {f \in Range(nfa.final) : f # nfa.initial /\ Keys(H.out, f) = {}}

(* C22: when union, fromWords or intersect has returned, at most one final *)
(* node of the result other than its initial node has no outgoing edge,    *)
(* and the result accepts the language of the operation (the union, the    *)
(* given words, the intersection); every edge that in the trie of          *)
(* fromWords led to a final node merged away leads, with its characters,   *)
(* to the final node that is left, and no edge leads to the merged node    *)
C22_FinalReuse ==
    [][(last'.op \in {"union", "fromWords", "intersect"} /\ last'.err = "ok") =>
        LET result == IF last'.op = "union" THEN last'.a ELSE Len(nfas')
            trie == wordsLoop(newNFA(heap, Len(nfas) + 1, Options), Len(nfas) + 1,
                              last'.input, 1, Options)
        IN /\ Cardinality(Reusable(heap', nfas'[result])) <= 1
           /\ last'.op = "union" =>
                    Lang(heap', nfas'[result]) =
                        Lang(heap, nfas[last'.a]) \cup Lang(heap, nfas[last'.b])
           /\ last'.op = "intersect" =>
                    Lang(heap', nfas'[result]) =
                        Lang(heap, nfas[last'.a]) \cap Lang(heap, nfas[last'.b])
           /\ last'.op = "fromWords" =>
                /\ Lang(heap', nfas'[result]) = Range(last'.input)
                /\ \A f \in Reusable(trie.h, trie.nfa) \ Range(nfas'[result].final) :
                        /\ Keys(heap'.in, f) = {}
                        /\ \A from \in Keys(trie.h.in, f) :
                            \E master \in Reusable(heap', nfas'[result]) :
                                /\ <<from, f>> \notin DOMAIN heap'.out
                                /\ <<from, master>> \in DOMAIN heap'.out
                                /\ trie.h.out[<<from, f>>].chars \subseteq
                                        heap'.out[<<from, master>>].chars
                                /\ trie.h.out[<<from, f>>].chars \subseteq
                                        heap'.in[<<master, from>>].chars]_vars

C22_Witness ==
    /\ last.op = "fromWords" /\ last.err = "ok"
    /\ Len(nfas) = 2
    /\ Range(last.input) = {<<1, 0, 1>>, <<0, 0, 1>>}
    /\ \E master \in Reusable(heap, nfas[2]) : Cardinality(Keys(heap.in, master)) = 2

(***************************************************************************)
(* An NFA and its copy: nfas[2] is the copy of nfas[1], and union, concat  *)
(* and quantify are called on either.                                      *)
(***************************************************************************)
NextCopy ==
    \/ \E value \in SomeRegexes : nfas = <<>> /\ FromRegex(value)
    \/ \E words \in SomeWords : nfas = <<>> /\ FromWords(words)
    \/ Len(nfas) = 1 /\ Copy(1)
    \/ \E a \in 1..2, b \in 1..2 : Len(nfas) = 2 /\ Union(a, b) /\ Nodes(heap') <= MaxNodes
    \/ \E a \in 1..2, b \in 1..2 : Len(nfas) = 2 /\ Concat(a, b) /\ Nodes(heap') <= MaxNodes
    \/ \E a \in 1..2, r \in SomeRanges :
            Len(nfas) = 2 /\ Quantify(a, r[1], r[2]) /\ Nodes(heap') <= MaxNodes

SpecCopy == Init /\ [][NextCopy]_vars

(* C23: copy returns a new NFA, over a node list of its own that has no    *)
(* edge to or from a node of another list, that accepts the language of    *)
(* the original; the final set and the edges of the original are as        *)
(* before; and a later union, concat or quantify called on one of the two  *)
(* leaves the language of the other as it was                              *)
C23_Copy ==
    [][/\ last'.op = "copy" =>
            /\ last'.err = "ok"
            /\ Len(nfas') = Len(nfas) + 1
            /\ Lang(heap', nfas'[Len(nfas')]) = Lang(heap, nfas[last'.a])
            /\ nfas'[Len(nfas')].initial[1] = Len(nfas')
            /\ \A f \in Range(nfas'[Len(nfas')].final) : f[1] = Len(nfas')
            /\ \A k \in DOMAIN heap'.out \cup DOMAIN heap'.in : k[1][1] = k[2][1]
            /\ nfas'[last'.a] = nfas[last'.a]
            /\ EdgesOf(heap', last'.a) = EdgesOf(heap, last'.a)
       /\ (last'.op \in {"union", "concat", "quantify"} /\ Len(nfas) = 2) =>
            \A other \in 1..2 \ {last'.a} :
                Lang(heap', nfas'[other]) = Lang(heap, nfas[other])]_vars

C23_Witness ==
    /\ last.op \in {"union", "concat", "quantify"} /\ last.err = "ok"
    /\ Len(nfas) = 2
    /\ Lang(heap, nfas[1]) # Lang(heap, nfas[2])
    /\ Cardinality(Lang(heap, nfas[3 - last.a])) >= 2
    /\ Keys(heap.out, nfas[3 - last.a].initial) # {}

(***************************************************************************)
(* isEmpty and the words test accepts, under Spec.                         *)
(***************************************************************************)
(* C24: every final node of an NFA is reachable from its initial node      *)
(* along out, and isEmpty is true exactly when test accepts no word (the   *)
(* words of Words suffice for an NFA of at most MaxWordLen + 1 nodes: a    *)
(* shortest accepted word visits no node twice)                            *)
C24_IsEmpty ==
    \A a \in 1..Len(nfas) :
        /\ Range(nfas[a].final) \subseteq ReachOut(heap, {nfas[a].initial})
        /\ heap.n[a] <= MaxWordLen + 1 =>
                (isEmpty(nfas[a]) <=> \A word \in Words : ~test(heap, nfas[a], word))

C24_Witness ==
    /\ Len(nfas) = 2
    /\ last.op \in {"union", "quantify"} /\ last.err = "ok"
    /\ isEmpty(nfas[1]) /\ ~isEmpty(nfas[2])
    /\ heap.n[2] <= MaxWordLen + 1
    /\ Len(nfas[last.a].final) >= 2

====
